---- MODULE Spec2Model ----
(***************************************************************************)
(* The user account service of Backend-v2: the User model's fingerprint    *)
(* similarity evaluator, its lookup index and referral points transaction  *)
(* (src/models/User.js, the second, fraud-aware revision of the model,     *)
(* lines 308-699) and the /auth routes that call them                      *)
(* (src/unnamed/part_002).                                                 *)
(*                                                                         *)
(* Encoding of fingerprint field values (integers, compared for equality   *)
(* and for JavaScript truthiness only):                                    *)
(*   Absent  the property is undefined (not in the object)                 *)
(*   0       the falsy present value: '' for a string field, 0 for a       *)
(*           numeric field                                                 *)
(*   n > 0   a truthy value: the number n for a numeric field, the n-th    *)
(*           distinct non-empty string for a string field (for language,   *)
(*           1 is 'en-US', the schema default)                             *)
(* The fields confidence, components, cookieEnabled, doNotTrack and        *)
(* timestamp are never read by the code modelled here and are left out.    *)
(* Emails, referral codes and account identities are opaque tokens that    *)
(* the code only compares for equality: they are numbered in order of      *)
(* first use. Identity 0, email 0 and code 0 stand for "none".             *)
(* A threshold is a percentage: 70 is the code's 0.7.                      *)
(***************************************************************************)
EXTENDS Integers, Sequences, FiniteSets, TLC

VARIABLES
    users,   \* the users collection, in insertion order; the identity is the index
    awards,  \* history: awards[i] = number of awardReferralPoints calls that returned
             \* success with account i as the referrer
    reqs,    \* the requests in flight, one per slot: where the handler stands and
             \* what it knows; at "done" the response it is about to send
    call     \* one call of the pure evaluator: its arguments and its verdict

vars == <<users, awards, reqs, call>>

(* ------------------------------ bounds --------------------------------- *)
MaxUsers == 3
MaxInFlight == 2
MaxRaceUsers == 4
MaxCode == 3
MaxPoints == 200

(* ------------------------- program constants --------------------------- *)
Absent == -1
ReferralPoints == 100
FraudThreshold == 70
NoCode == 0

NoFp == [absent |-> TRUE]

(* ----------------------- fingerprint records --------------------------- *)
CriticalFields ==
    {"platform", "vendor", "userAgent", "screenResolution",
     "hardwareConcurrency", "maxTouchPoints"}

MkFp(vid, pl, ve, ua, sr, hc, mtp, tz, la) ==
    [visitorId |-> vid, platform |-> pl, vendor |-> ve, userAgent |-> ua,
     screenResolution |-> sr, hardwareConcurrency |-> hc, maxTouchPoints |-> mtp,
     timezone |-> tz, language |-> la]

\* The schema's defaults: no visitorId, '' for the strings, 0 for the numbers,
\* 'en-US' for the language.
SchemaDefault == MkFp(Absent, 0, 0, 0, 0, 0, 0, 0, 1)

Default(v, d) == IF v = Absent THEN d ELSE v

\* What an account holds (and a later query reads back) after
\* new User({fingerprint}) / user.fingerprint = fingerprint and save():
\* the supplied values, the schema default for every field left undefined.
StoredFingerprint(fp) ==
    IF fp = NoFp THEN SchemaDefault
    ELSE MkFp(fp.visitorId,
              Default(fp.platform, SchemaDefault.platform),
              Default(fp.vendor, SchemaDefault.vendor),
              Default(fp.userAgent, SchemaDefault.userAgent),
              Default(fp.screenResolution, SchemaDefault.screenResolution),
              Default(fp.hardwareConcurrency, SchemaDefault.hardwareConcurrency),
              Default(fp.maxTouchPoints, SchemaDefault.maxTouchPoints),
              Default(fp.timezone, SchemaDefault.timezone),
              Default(fp.language, SchemaDefault.language))

\* The request bodies: sampleFingerprint of the tests; their differentFingerprint
\* (platform, vendor and userAgent differ), here with visitorId ''; and a body
\* whose every field is present and falsy, which the validation accepts.
FpWin == MkFp(1, 1, 1, 1, 1, 8, 0, 1, 1)
FpMac == MkFp(0, 2, 2, 2, 1, 8, 0, 1, 1)
FpBlank == MkFp(0, 0, 0, 0, 0, 0, 0, 0, 0)

FpInputs == {FpWin, FpMac, FpBlank}

\* newFingerprint of the update-fingerprint test: visitorId, platform, vendor and
\* timezone only.
FpPartial == MkFp(2, 3, 3, Absent, Absent, Absent, Absent, 2, Absent)

(* ------------------- Fingerprint Similarity Evaluator ------------------ *)
\* JavaScript truthiness of a field value: undefined, '' and 0 are falsy.
Truthy(v) == v # Absent /\ v # 0

CheckedFirstOnly(fingerprint1, fingerprint2, fields) ==
    {f \in fields : Truthy(fingerprint1[f])}

Checked(fingerprint1, fingerprint2, fields) ==
    {f \in fields : Truthy(fingerprint1[f]) /\ Truthy(fingerprint2[f])}

TotalChecks(fingerprint1, fingerprint2) ==
    Cardinality(Checked(fingerprint1, fingerprint2, CriticalFields))
    + Cardinality(Checked(fingerprint1, fingerprint2, {"timezone"}))
    + Cardinality(Checked(fingerprint1, fingerprint2, {"language"}))

MatchCount(fingerprint1, fingerprint2) ==
    Cardinality({f \in Checked(fingerprint1, fingerprint2,
                               CriticalFields \cup {"timezone", "language"}) :
                     fingerprint1[f] = fingerprint2[f]})

\* similarityScore >= threshold, with similarityScore = matchCount / totalChecks
\* or 0 when nothing was checked; the threshold is a percentage.
ScoreExactly(matchCount, totalChecks, threshold) ==
    IF totalChecks > 0
    THEN matchCount * 100 = threshold * totalChecks
    ELSE 0 = threshold

ScoreAtLeast(matchCount, totalChecks, threshold) ==
    IF totalChecks > 0
    THEN matchCount * 100 >= threshold * totalChecks
    ELSE 0 >= threshold

isSameDeviceNoGuard(fingerprint1, fingerprint2, threshold) ==
    IF fingerprint1 = NoFp \/ fingerprint2 = NoFp
    THEN ScoreAtLeast(0, 0, threshold)
    ELSE ScoreAtLeast(MatchCount(fingerprint1, fingerprint2),
                      TotalChecks(fingerprint1, fingerprint2), threshold)

isSameDevice(fingerprint1, fingerprint2, threshold) ==
    IF fingerprint1 = NoFp \/ fingerprint2 = NoFp
    THEN FALSE
    ELSE ScoreAtLeast(MatchCount(fingerprint1, fingerprint2),
                      TotalChecks(fingerprint1, fingerprint2), threshold)

(* --------------------------- store queries ----------------------------- *)
Ids(us) == 1..Len(us)

Lowest(S) == IF S = {} THEN 0 ELSE CHOOSE i \in S : \A j \in S : i <= j

\* findOne({ email }): the email index is unique.
findByEmail(us, email) == Lowest({i \in Ids(us) : us[i].email = email})

\* findOne({ myReferralCode }): no index, a collection scan in insertion order.
findByReferralCode(us, referralCode) ==
    Lowest({i \in Ids(us) : us[i].myReferralCode = referralCode})

\* find({ 'fingerprint.visitorId': { $exists: true } }): '' exists, undefined does not.
Scanned(us) == {i \in Ids(us) : us[i].fingerprint.visitorId # Absent}

\* The orders in which the query may hand the scanned accounts to the loop: the
\* query states no sort, so every order of the result set.
ScanOrders(us) ==
    LET S == Scanned(us)
        n == Cardinality(S)
    IN {o \in [1..n -> S] : \A a, b \in 1..n : a # b => o[a] # o[b]}

findMatchingFingerprintLast(us, fingerprintData, threshold, order) ==
    LET hits == {k \in 1..Len(order) :
                    isSameDevice(us[order[k]].fingerprint, fingerprintData, threshold)}
    IN IF hits = {} THEN 0
       ELSE order[CHOOSE k \in hits : \A j \in hits : j <= k]

findMatchingFingerprint(us, fingerprintData, threshold, order) ==
    LET hits == {k \in 1..Len(order) :
                    isSameDevice(us[order[k]].fingerprint, fingerprintData, threshold)}
    IN IF hits = {} THEN 0 ELSE order[Lowest(hits)]

(* ------------------------- requests and responses ---------------------- *)
Slots == 1..MaxInFlight

Idle == [pc |-> "idle"]

\* What a handler knows about its request and what it answers. awardError is the
\* message of the error awardReferralPoints threw ("" when it returned or was not
\* called); before is the points of every account when awardReferralPoints was
\* entered.
NoResp ==
    [kind |-> "none", status |-> 0, error |-> "", email |-> 0, userId |-> 0,
     code |-> NoCode, fp |-> NoFp, newId |-> 0,
     awardCalled |-> FALSE, awardError |-> "", referrer |-> 0, before |-> <<>>,
     lookupQueried |-> FALSE, allUsers |-> <<>>, found |-> 0,
     referralResult |-> FALSE, referrerPointsAwarded |-> 0, pointsAwarded |-> 0,
     fraudCheckPassed |-> FALSE, fraudDetected |-> FALSE, fraudMessage |-> "",
     sameDeviceReferral |-> FALSE, multipleAccounts |-> FALSE]

SelfReferralMessage == "Fraud detected: Same device attempting to refer itself"
MultiAccountMessage == "Fraud detected: Multiple accounts detected from same device"

AllIdle == \A s \in Slots : reqs[s] = Idle

\* The slot an arriving request takes.
FreeSlot(s) == reqs[s] = Idle /\ \A t \in Slots : t < s => reqs[t] # Idle

\* Registrations in flight that have not inserted their account yet.
Pending == {s \in Slots : reqs[s].pc \in {"referral", "save"}}

Max(S) == IF S = {} THEN 0 ELSE CHOOSE i \in S : \A j \in S : i >= j

\* Emails and codes a request may carry: every one in use and one that is not.
EmailInputs ==
    1..(Max({users[i].email : i \in Ids(users)}
            \cup {reqs[s].resp.email : s \in Pending}) + 1)

CodesInUse == {users[i].myReferralCode : i \in Ids(users)}

CodeInputs == 0..(Max(CodesInUse) + 1)

\* The pre('save') hook draws 8 random characters: any code, one in use included.
GeneratedCodes == 1..(Max(CodesInUse) + 1)

Points(us) == [i \in Ids(us) |-> us[i].points]

Init ==
    /\ users = <<>>
    /\ awards = <<>>
    /\ reqs = [s \in Slots |-> Idle]
    /\ call = [fingerprint1 |-> NoFp, fingerprint2 |-> NoFp, threshold |-> 0,
               verdict |-> "none"]

\* The handler moves on to its next await.
Continue(s, pc, resp) ==
    reqs' = [reqs EXCEPT ![s] = [reqs[s] EXCEPT !.pc = pc, !.resp = resp]]

\* The handler has its response.
Done(s, resp) ==
    reqs' = [reqs EXCEPT ![s] = [pc |-> "done", referrerPoints |-> 0, resp |-> resp]]

\* res.status(...).json(...): the response leaves and the request is over.
Reply(s) ==
    /\ reqs[s].pc = "done"
    /\ reqs' = [reqs EXCEPT ![s] = Idle]
    /\ UNCHANGED <<users, awards, call>>

(* ----------------------- POST /auth/register --------------------------- *)
\* The request arrives and the handler looks its email up.
RegisterWithin(maxUsers, s, email, enteredReferralCode, fingerprint) ==
    /\ FreeSlot(s)
    /\ LET req == [NoResp EXCEPT !.kind = "register", !.email = email,
                                 !.code = enteredReferralCode, !.fp = fingerprint]
       IN IF findByEmail(users, email) # 0
          THEN Done(s, [NoResp EXCEPT !.kind = "register", !.status = 400,
                                      !.error = "User already exists with this email"])
          ELSE /\ Len(users) + Cardinality(Pending) < maxUsers
               /\ reqs' = [reqs EXCEPT ![s] =
                      [pc |-> IF enteredReferralCode # NoCode THEN "referral" ELSE "save",
                       referrerPoints |-> 0, resp |-> req]]
    /\ UNCHANGED <<users, awards, call>>

Register(s, email, enteredReferralCode, fingerprint) ==
    RegisterWithin(MaxUsers, s, email, enteredReferralCode, fingerprint)

RegReferralLenient(s) ==
    /\ reqs[s].pc = "referral"
    /\ LET req == reqs[s].resp
           referrer == findByReferralCode(users, req.code)
       IN IF referrer # 0 /\ users[referrer].email = req.email
          THEN Done(s, [req EXCEPT !.status = 400, !.error = "You cannot refer yourself"])
          ELSE Continue(s, "save", req)
    /\ UNCHANGED <<users, awards, call>>

\* Validate entered referral code if provided.
RegReferral(s) ==
    /\ reqs[s].pc = "referral"
    /\ LET req == reqs[s].resp
           referrer == findByReferralCode(users, req.code)
       IN IF referrer = 0
          THEN Done(s, [req EXCEPT !.status = 400, !.error = "Invalid referral code"])
          ELSE IF users[referrer].email = req.email
          THEN Done(s, [req EXCEPT !.status = 400, !.error = "You cannot refer yourself"])
          ELSE Continue(s, "save", req)
    /\ UNCHANGED <<users, awards, call>>

NewUser(req, myReferralCode) ==
    [email |-> req.email, points |-> 0, myReferralCode |-> myReferralCode,
     enteredReferralCode |-> req.code, fingerprint |-> StoredFingerprint(req.fp)]

\* new User(userData) and user.save(): the pre('save') hook generates the code,
\* the unique email index rejects a second account with the email.
RegSave(s) ==
    /\ reqs[s].pc = "save"
    /\ LET req == reqs[s].resp
       IN IF findByEmail(users, req.email) # 0
          THEN /\ Done(s, [req EXCEPT !.status = 500, !.error = "Registration failed"])
               /\ UNCHANGED <<users, awards>>
          ELSE /\ \E myReferralCode \in GeneratedCodes :
                    users' = Append(users, NewUser(req, myReferralCode))
               /\ awards' = Append(awards, 0)
               /\ IF req.code # NoCode
                  THEN Continue(s, "award", [req EXCEPT !.newId = Len(users) + 1])
                  ELSE Done(s, [req EXCEPT !.newId = Len(users) + 1, !.status = 201])
    /\ UNCHANGED call

registrationFailsOnAwardError(req, message) ==
    [req EXCEPT !.status = 500, !.error = "Registration failed",
                !.awardError = message]

\* The route's catch around awardReferralPoints: a fraud error is noted, any
\* other error is dropped, and the registration answers 201 either way.
AwardFailed(req, message) ==
    LET fraud == message \in {SelfReferralMessage, MultiAccountMessage}
    IN [req EXCEPT !.status = 201, !.awardError = message,
                   !.fraudDetected = fraud,
                   !.fraudMessage = IF fraud THEN message ELSE ""]

selfReferralNever(referrerFingerprint, newUserFingerprint) == FALSE

\* referrer.fingerprint && this.isSameDevice(referrer.fingerprint, newUserFingerprint, 0.7)
selfReferral(referrerFingerprint, newUserFingerprint) ==
    /\ referrerFingerprint # NoFp
    /\ isSameDevice(referrerFingerprint, newUserFingerprint, FraudThreshold)

multiAccountAnyMatch(existingUser, newUserId) == existingUser # 0

\* existingUserWithSameFingerprint && its _id differs from newUserId
multiAccount(existingUser, newUserId) ==
    existingUser # 0 /\ existingUser # newUserId

fingerprintProvidedAlways(newUserFingerprint) == TRUE

\* if (newUserFingerprint): an object is truthy, null and undefined are not.
fingerprintProvided(newUserFingerprint) == newUserFingerprint # NoFp

\* awardReferralPoints, up to the self-referral check: it reads the referrer and
\* the new user, then compares the fingerprints.
RegAward(s) ==
    /\ reqs[s].pc = "award"
    /\ LET req == [reqs[s].resp EXCEPT !.awardCalled = TRUE, !.before = Points(users)]
           referrer == findByReferralCode(users, req.code)
       IN IF referrer = 0
          THEN Done(s, AwardFailed(req, "Invalid referral code"))
          ELSE IF req.newId \notin Ids(users)
          THEN Done(s, AwardFailed([req EXCEPT !.referrer = referrer],
                                   "New user not found"))
          ELSE IF /\ fingerprintProvided(req.fp)
                  /\ selfReferral(users[referrer].fingerprint, req.fp)
          THEN Done(s, AwardFailed([req EXCEPT !.referrer = referrer],
                                   SelfReferralMessage))
          ELSE reqs' = [reqs EXCEPT ![s] =
                   [pc |-> IF fingerprintProvided(req.fp) THEN "scan" ELSE "credit",
                    referrerPoints |-> users[referrer].points,
                    resp |-> [req EXCEPT !.referrer = referrer]]]
    /\ UNCHANGED <<users, awards, call>>

\* What findMatchingFingerprint may resolve to: the first match of some order.
Matches(us, fingerprintData, threshold) ==
    {findMatchingFingerprint(us, fingerprintData, threshold, order) :
         order \in ScanOrders(us)}

RegScanCreditsFirst(s) ==
    /\ reqs[s].pc = "scan"
    /\ \E allUsers \in ScanOrders(users) :
         LET existingUser == findMatchingFingerprint(users, reqs[s].resp.fp,
                                                     FraudThreshold, allUsers)
             req == [reqs[s].resp EXCEPT !.lookupQueried = TRUE,
                                         !.allUsers = allUsers,
                                         !.found = existingUser]
         IN IF multiAccount(existingUser, req.newId)
            THEN /\ Done(s, AwardFailed(req, MultiAccountMessage))
                 /\ users' = [users EXCEPT ![req.referrer].points = @ + ReferralPoints]
            ELSE /\ Continue(s, "credit", req)
                 /\ UNCHANGED users
    /\ UNCHANGED <<awards, call>>

\* awardReferralPoints, the multi-account check.
RegScan(s) ==
    /\ reqs[s].pc = "scan"
    /\ \E allUsers \in ScanOrders(users) :
         LET existingUser == findMatchingFingerprint(users, reqs[s].resp.fp,
                                                     FraudThreshold, allUsers)
             req == [reqs[s].resp EXCEPT !.lookupQueried = TRUE,
                                         !.allUsers = allUsers,
                                         !.found = existingUser]
         IN IF multiAccount(existingUser, req.newId)
            THEN Done(s, AwardFailed(req, MultiAccountMessage))
            ELSE Continue(s, "credit", req)
    /\ UNCHANGED <<users, awards, call>>

addPointsSkipped(us, id, docPoints, points) == us

addPointsToBoth(us, id, docPoints, points) ==
    [i \in Ids(us) |-> IF i = id THEN [us[i] EXCEPT !.points = docPoints + points]
                       ELSE IF i = Len(us) THEN [us[i] EXCEPT !.points = @ + 50]
                       ELSE us[i]]

\* addPoints on the document read earlier: this.points += points; this.save()
\* writes the document's new points to the stored account.
addPoints(us, id, docPoints, points) ==
    [us EXCEPT ![id].points = docPoints + points]

\* awardReferralPoints, the award and the return; the route's referralInfo.
RegCredit(s) ==
    /\ reqs[s].pc = "credit"
    /\ LET req == reqs[s].resp
       IN /\ users' = addPoints(users, req.referrer, reqs[s].referrerPoints,
                                ReferralPoints)
          /\ awards' = [awards EXCEPT ![req.referrer] = @ + 1]
          /\ Done(s, [req EXCEPT !.status = 201, !.referralResult = TRUE,
                                 !.referrerPointsAwarded = ReferralPoints,
                                 !.pointsAwarded = 0,
                                 !.fraudCheckPassed = TRUE])
    /\ UNCHANGED call

(* ------------------------- POST /auth/login ---------------------------- *)
mergeFingerprint(us, id, fingerprintData) ==
    [us EXCEPT ![id].fingerprint =
        [f \in DOMAIN us[id].fingerprint |->
            IF fingerprintData[f] = Absent THEN us[id].fingerprint[f]
            ELSE fingerprintData[f]]]

keepFingerprint(us, id, fingerprintData) == us

\* this.fingerprint = fingerprintData; return this.save()
updateFingerprint(us, id, fingerprintData) ==
    [us EXCEPT ![id].fingerprint = StoredFingerprint(fingerprintData)]

LoginUpdatesBeforePassword(s, email, isPasswordValid, fingerprint) ==
    /\ FreeSlot(s)
    /\ LET req == [NoResp EXCEPT !.kind = "login", !.email = email, !.fp = fingerprint]
           user == findByEmail(users, email)
       IN /\ users' = IF user # 0 /\ fingerprint # NoFp
                       THEN updateFingerprint(users, user, fingerprint)
                       ELSE users
          /\ IF user = 0 \/ ~isPasswordValid
             THEN Done(s, [req EXCEPT !.status = 401,
                                      !.error = "Invalid email or password"])
             ELSE Done(s, [req EXCEPT !.status = 200, !.userId = user])
    /\ UNCHANGED <<awards, call>>

\* The login route: the account by email, the password, then the fingerprint.
Login(s, email, isPasswordValid, fingerprint) ==
    /\ FreeSlot(s)
    /\ LET req == [NoResp EXCEPT !.kind = "login", !.email = email, !.fp = fingerprint]
           user == findByEmail(users, email)
       IN IF user = 0 \/ ~isPasswordValid
          THEN /\ Done(s, [req EXCEPT !.status = 401,
                                      !.error = "Invalid email or password"])
               /\ UNCHANGED users
          ELSE /\ users' = IF fingerprint # NoFp
                           THEN [users EXCEPT ![user].fingerprint =
                                                  StoredFingerprint(fingerprint)]
                           ELSE users
               /\ Done(s, [req EXCEPT !.status = 200, !.userId = user])
    /\ UNCHANGED <<awards, call>>

(* -------------------- PUT /auth/update-fingerprint --------------------- *)
UpdateFingerprint(s, userId, fingerprint) ==
    /\ FreeSlot(s)
    /\ LET req == [NoResp EXCEPT !.kind = "update", !.userId = userId,
                                 !.fp = fingerprint]
       IN IF userId = 0 \/ fingerprint = NoFp
          THEN /\ Done(s, [req EXCEPT !.status = 400,
                              !.error = "User ID and fingerprint data are required"])
               /\ UNCHANGED users
          ELSE IF userId \notin Ids(users)
          THEN /\ Done(s, [req EXCEPT !.status = 404, !.error = "User not found"])
               /\ UNCHANGED users
          ELSE /\ users' = updateFingerprint(users, userId, fingerprint)
               /\ Done(s, [req EXCEPT !.status = 200])
    /\ UNCHANGED <<awards, call>>

(* ------------------ POST /auth/check-fingerprint-fraud ----------------- *)
hasFraudReferralOnly(sameDeviceReferral, multipleAccounts) == sameDeviceReferral

\* const hasFraud = fraudChecks.sameDeviceReferral || fraudChecks.multipleAccounts
hasFraud(sameDeviceReferral, multipleAccounts) ==
    sameDeviceReferral \/ multipleAccounts

CheckFingerprintFraudRecording(s, fingerprint, referralCode) ==
    /\ FreeSlot(s)
    /\ Done(s, [NoResp EXCEPT !.kind = "check", !.status = 200,
                               !.code = referralCode, !.fp = fingerprint])
    /\ users' = IF Len(users) > 0 /\ fingerprint # NoFp
                THEN updateFingerprint(users, 1, fingerprint)
                ELSE users
    /\ UNCHANGED <<awards, call>>

CheckFingerprintFraud(s, fingerprint, referralCode) ==
    /\ FreeSlot(s)
    /\ LET req == [NoResp EXCEPT !.kind = "check", !.code = referralCode,
                                 !.fp = fingerprint]
       IN IF fingerprint = NoFp
          THEN Done(s, [req EXCEPT !.status = 400,
                                   !.error = "Fingerprint data is required"])
          ELSE \E allUsers \in ScanOrders(users) :
                 LET existingUser == findMatchingFingerprint(users, fingerprint,
                                                             FraudThreshold, allUsers)
                     referrer == IF referralCode # NoCode
                                 THEN findByReferralCode(users, referralCode) ELSE 0
                     sameDevice ==
                         /\ referrer # 0
                         /\ isSameDevice(users[referrer].fingerprint, fingerprint,
                                         FraudThreshold)
                 IN Done(s, [req EXCEPT !.status = 200, !.lookupQueried = TRUE,
                                !.allUsers = allUsers,
                                !.found = existingUser, !.referrer = referrer,
                                !.multipleAccounts = existingUser # 0,
                                !.sameDeviceReferral = sameDevice,
                                !.fraudDetected = hasFraud(sameDevice, existingUser # 0)])
    /\ UNCHANGED <<users, awards, call>>

(* --------------------------- specifications ---------------------------- *)
RegisterArrives(emails, codes, fps) ==
    \E s \in Slots, email \in emails, code \in codes, fp \in fps :
        Register(s, email, code, fp)

LoginArrives ==
    \E s \in Slots, email \in EmailInputs, ok \in BOOLEAN, fp \in FpInputs \cup {NoFp} :
        Login(s, email, ok, fp)

UpdateArrives ==
    \E s \in Slots, userId \in 0..(Len(users) + 1), fp \in FpInputs \cup {NoFp} :
        UpdateFingerprint(s, userId, fp)

CheckArrives ==
    \E s \in Slots, fp \in FpInputs \cup {NoFp}, code \in CodeInputs :
        CheckFingerprintFraud(s, fp, code)

\* A request in flight resumes after an await, or sends its response.
Resume ==
    \E s \in Slots :
        \/ RegReferral(s)
        \/ RegSave(s)
        \/ RegAward(s)
        \/ RegScan(s)
        \/ RegCredit(s)
        \/ Reply(s)

\* The service: requests arrive at any time and interleave at their awaits.
Next ==
    \/ RegisterArrives(EmailInputs, CodeInputs, FpInputs \cup {NoFp})
    \/ LoginArrives
    \/ UpdateArrives
    \/ CheckArrives
    \/ Resume

Spec == Init /\ [][Next]_vars

\* One request at a time: each handler runs to its response before the next
\* request arrives.
SeqNext ==
    \/ AllIdle /\ RegisterArrives(EmailInputs, CodeInputs, FpInputs \cup {NoFp})
    \/ AllIdle /\ LoginArrives
    \/ AllIdle /\ UpdateArrives
    \/ AllIdle /\ CheckArrives
    \/ Resume

SeqSpec == Init /\ [][SeqNext]_vars

\* Registrations that interleave at their awaits: each with an email not seen
\* before and no code or the code of an account, from a device that sends no
\* fingerprint or one of the two devices of the tests.
ConcNext ==
    \/ RegisterArrives({Max(EmailInputs)}, CodesInUse \cup {NoCode}, {NoFp, FpWin, FpMac})
    \/ Resume

ConcSpec == Init /\ [][ConcNext]_vars

\* Registrations racing for one referrer: new emails, referral codes in use, no
\* fingerprint (so the lookup index is never reached), and room for a referrer
\* and three referred accounts.
RaceArrives ==
    \E s \in Slots, code \in CodesInUse \cup {NoCode} :
        RegisterWithin(MaxRaceUsers, s, Max(EmailInputs), code, NoFp)

RaceResume ==
    \E s \in Slots :
        \/ RegReferral(s)
        \/ RegSave(s)
        \/ RegAward(s)
        \/ RegCredit(s)
        \/ Reply(s)

RaceNext ==
    \/ RaceArrives
    \/ RaceResume

RaceSpec == Init /\ [][RaceNext]_vars

(* ------------------ the model's methods, called directly -------------- *)
\* new User({..., myReferralCode, fingerprint}) and save(): the pre('save') hook
\* generates a code only when the new document has none.
CreateUser(suppliedCode, fingerprint) ==
    /\ AllIdle
    /\ Len(users) < MaxUsers
    /\ LET req == [email |-> Max(EmailInputs), code |-> NoCode, fp |-> fingerprint]
       IN \E generated \in 1..MaxCode :
            users' = Append(users,
                            NewUser(req, IF suppliedCode # NoCode THEN suppliedCode
                                         ELSE generated))
    /\ awards' = Append(awards, 0)
    /\ UNCHANGED <<reqs, call>>

\* user.addPoints(points)
AddPointsCall(userId, points) ==
    /\ AllIdle
    /\ users[userId].points + points <= MaxPoints
    /\ users' = addPoints(users, userId, users[userId].points, points)
    /\ UNCHANGED <<awards, reqs, call>>

\* user.updateFingerprint(fingerprintData)
UpdateFingerprintCall(userId, fingerprintData) ==
    /\ AllIdle
    /\ users' = updateFingerprint(users, userId, fingerprintData)
    /\ UNCHANGED <<awards, reqs, call>>

\* user.generateReferralCode(): eight random characters assigned and saved.
GenerateReferralCode(userId) ==
    /\ AllIdle
    /\ \E result \in 1..MaxCode :
         users' = [users EXCEPT ![userId].myReferralCode = result]
    /\ UNCHANGED <<awards, reqs, call>>

MethodNext ==
    \/ \E suppliedCode \in 0..MaxCode, fp \in {NoFp, FpWin} : CreateUser(suppliedCode, fp)
    \/ \E userId \in Ids(users) : AddPointsCall(userId, ReferralPoints)
    \/ \E userId \in Ids(users), fp \in {FpWin, FpMac} : UpdateFingerprintCall(userId, fp)
    \/ \E userId \in Ids(users) : GenerateReferralCode(userId)
    \/ AllIdle /\ LoginArrives
    \/ \E s \in Slots : Reply(s)

MethodSpec == Init /\ [][MethodNext]_vars

(* ------------------ awardReferralPoints, called directly -------------- *)
\* User.awardReferralPoints(referralCode, newUserId, newUserFingerprint) called
\* with any code and any id, of an account or of none.
AwardReferralPoints(s, referralCode, newUserId, newUserFingerprint) ==
    /\ FreeSlot(s)
    /\ \A i \in Ids(users) : users[i].points + ReferralPoints <= MaxPoints
    /\ reqs' = [reqs EXCEPT ![s] =
           [pc |-> "award", referrerPoints |-> 0,
            resp |-> [NoResp EXCEPT !.kind = "award", !.code = referralCode,
                                    !.newId = newUserId,
                                    !.fp = newUserFingerprint]]]
    /\ UNCHANGED <<users, awards, call>>

AwardNext ==
    \/ \E suppliedCode \in 1..2, fp \in {NoFp, FpWin, FpMac} : CreateUser(suppliedCode, fp)
    \/ AllIdle /\ \E s \in Slots, referralCode \in 1..MaxCode,
                      newUserId \in 1..(MaxUsers + 1), fp \in {NoFp, FpWin, FpMac} :
                     AwardReferralPoints(s, referralCode, newUserId, fp)
    \/ \E s \in Slots : RegAward(s)
    \/ \E s \in Slots : RegScan(s)
    \/ \E s \in Slots : RegCredit(s)
    \/ \E s \in Slots : Reply(s)

AwardSpec == Init /\ [][AwardNext]_vars

(* ---------------- a fraud check followed by a registration ------------ *)
\* The client asks /check-fingerprint-fraud and, with the answer in hand and
\* nothing else happening in between, registers with the fingerprint and the
\* code it asked about. Other registrations fill the store one at a time.
RegisterAfterCheck ==
    /\ reqs[1].pc = "done"
    /\ reqs[1].resp.kind = "check"
    /\ \E email \in EmailInputs :
         Register(2, email, reqs[1].resp.code, reqs[1].resp.fp)

\* The answers leave: that of the check alone when no registration followed it,
\* else both once the registration has its own, so that no second registration
\* is made on the strength of a check that is out of date.
PreflightReply ==
    \/ reqs[2] = Idle /\ Reply(1)
    \/ /\ reqs[2].pc = "done"
       /\ reqs' = [s \in Slots |-> Idle]
       /\ UNCHANGED <<users, awards, call>>

PreflightNext ==
    \/ AllIdle /\ RegisterArrives(EmailInputs, CodeInputs, FpInputs \cup {NoFp})
    \/ AllIdle /\ CheckArrives
    \/ RegisterAfterCheck
    \/ \E s \in Slots : RegReferral(s)
    \/ \E s \in Slots : RegSave(s)
    \/ \E s \in Slots : RegAward(s)
    \/ \E s \in Slots : RegScan(s)
    \/ \E s \in Slots : RegCredit(s)
    \/ PreflightReply

PreflightSpec == Init /\ [][PreflightNext]_vars

(* ------------- a device returns after its account moved on ------------ *)
\* Every account is registered from the device FpWin. An account that still
\* holds that fingerprint has it replaced, by a login or by update-fingerprint,
\* with the snapshot of another device; then, with that answer in hand, the
\* device FpWin registers again, with the code of any account or an unknown one.
ReplaceArrives ==
    /\ AllIdle
    /\ \E s \in Slots, userId \in Ids(users), fp \in {FpMac, FpPartial} :
         /\ users[userId].fingerprint = StoredFingerprint(FpWin)
         /\ \/ UpdateFingerprint(s, userId, fp)
            \/ Login(s, users[userId].email, TRUE, fp)

RegisterAfterReplace ==
    /\ reqs[1].pc = "done"
    /\ reqs[1].resp.kind \in {"login", "update"}
    /\ \E email \in EmailInputs, code \in CodeInputs : Register(2, email, code, FpWin)

ReturnNext ==
    \/ AllIdle /\ RegisterArrives(EmailInputs, CodeInputs, {FpWin})
    \/ ReplaceArrives
    \/ RegisterAfterReplace
    \/ \E s \in Slots : RegReferral(s)
    \/ \E s \in Slots : RegSave(s)
    \/ \E s \in Slots : RegAward(s)
    \/ \E s \in Slots : RegScan(s)
    \/ \E s \in Slots : RegCredit(s)
    \/ PreflightReply

ReturnSpec == Init /\ [][ReturnNext]_vars

(* --------------- fingerprint replacement by login and update ---------- *)
\* Accounts created with the fingerprint of the tests and given points, then
\* logins and update-fingerprint requests, one at a time, some of them carrying
\* a snapshot that omits fields.
ReplaceNext ==
    \/ \E suppliedCode \in 0..1 : CreateUser(suppliedCode, FpWin)
    \/ \E userId \in Ids(users) : AddPointsCall(userId, ReferralPoints)
    \/ AllIdle /\ \E s \in Slots, email \in EmailInputs, ok \in BOOLEAN,
                      fp \in {NoFp, FpMac, FpPartial} : Login(s, email, ok, fp)
    \/ AllIdle /\ \E s \in Slots, userId \in 0..(Len(users) + 1),
                      fp \in {NoFp, FpMac, FpPartial} : UpdateFingerprint(s, userId, fp)
    \/ \E s \in Slots : Reply(s)

ReplaceSpec == Init /\ [][ReplaceNext]_vars

(* ------------------- one call of the pure evaluator -------------------- *)
\* The critical fields in the order the family below fills them.
FieldAt(fp, i) ==
    CASE i = 1 -> fp.maxTouchPoints
      [] i = 2 -> fp.hardwareConcurrency
      [] i = 3 -> fp.platform
      [] i = 4 -> fp.vendor
      [] i = 5 -> fp.userAgent
      [] i = 6 -> fp.screenResolution
      [] i = 7 -> fp.timezone
      [] i = 8 -> fp.language

\* A fingerprint whose first p fields are present and the others undefined; of the
\* present ones the first z hold the falsy value, the last d the value 2 and the
\* others the value 1.
EvalFp(p, z, d) ==
    LET v(i) == IF i > p THEN Absent
                ELSE IF i <= z THEN 0
                ELSE IF i > p - d THEN 2
                ELSE 1
    IN MkFp(Absent, v(3), v(4), v(5), v(6), v(2), v(1), v(7), v(8))

\* The pair of the test 'should detect different device fingerprints', with the
\* timezone of the second made equal to the first's: maxTouchPoints 0, timezone and
\* language equal, the other five fields different.
ExampleWin == MkFp(Absent, 1, 1, 1, 1, 8, 0, 1, 1)
ExampleMac == MkFp(Absent, 2, 2, 2, 2, 16, 0, 1, 1)

EvalFps ==
    {EvalFp(p, z, d) : p \in 0..8, z \in 0..8, d \in 0..8} \cup {ExampleWin, ExampleMac}

Thresholds == {0, 50, 70, 75, 100}

EvalInit ==
    /\ users = <<>>
    /\ awards = <<>>
    /\ reqs = [s \in Slots |-> Idle]
    /\ call \in [fingerprint1 : EvalFps \cup {NoFp}, fingerprint2 : EvalFps \cup {NoFp},
                 threshold : Thresholds, verdict : {"none"}]

Evaluate ==
    /\ call.verdict = "none"
    /\ call' = [call EXCEPT !.verdict =
                   IF isSameDevice(call.fingerprint1, call.fingerprint2, call.threshold)
                   THEN "true" ELSE "false"]
    /\ UNCHANGED <<users, awards, reqs>>

EvalNext == Evaluate

EvalSpec == EvalInit /\ [][EvalNext]_vars

(* ------------------------------- claims -------------------------------- *)
\* The responses about to be sent.
Responses == {reqs[s].resp : s \in {t \in Slots : reqs[t].pc = "done"}}

\* The responses of registrations whose awardReferralPoints call found the
\* referrer and the new user.
Awards ==
    {r \in Responses : r.kind = "register" /\ r.awardCalled /\ r.referrer # 0
                       /\ r.newId \in Ids(users)}

Credited(r) ==
    /\ r.status = 201
    /\ r.awardError = ""
    /\ r.referralResult
    /\ r.referrerPointsAwarded = 100
    /\ r.pointsAwarded = 0
    /\ r.fraudCheckPassed
    /\ users[r.referrer].points = r.before[r.referrer] + 100

\* C1: a registration whose fingerprint is identical to the referrer's stored
\* fingerprint fails the award with the self-referral fraud error and leaves the
\* referrer's points as they were when awardReferralPoints was entered.
C1_IdenticalFingerprintIsSelfReferral ==
    \A r \in Awards :
        r.fp = users[r.referrer].fingerprint
        => /\ r.awardError = SelfReferralMessage
           /\ r.fraudDetected
           /\ users[r.referrer].points = r.before[r.referrer]

\* C2: a registration that passed the duplicate-email and referral-code lookups
\* has its account persisted from then on and answers 201, whatever the award
\* did: fraud error, other error or success.
C2_Persisted ==
    /\ \A s \in Slots :
         reqs[s].pc \in {"award", "scan", "credit"}
         => /\ reqs[s].resp.newId \in Ids(users)
            /\ users[reqs[s].resp.newId].email = reqs[s].resp.email
    /\ \A r \in Responses :
         (r.kind = "register" /\ r.status # 400)
         => /\ r.status = 201
            /\ r.newId \in Ids(users)
            /\ users[r.newId].email = r.email

C2_NeverRemoved ==
    /\ Len(users') >= Len(users)
    /\ \A i \in Ids(users) : users'[i].email = users[i].email

C3_Distinct(r) ==
    /\ r.fp # NoFp
    /\ \A i \in Ids(users) \ {r.newId} :
         ~isSameDevice(users[i].fingerprint, r.fp, FraudThreshold)

C3_DistinctDeviceCredits ==
    \A r \in Awards :
        C3_Distinct(r)
        => /\ Credited(r)
           /\ users[r.newId].points = 0
           /\ \A i \in Ids(users) \ {r.referrer} : users[i].points = r.before[i]

C3_Witness ==
    \E r \in Awards :
        /\ C3_Distinct(r)
        /\ r.fp = FpMac
        /\ users[r.referrer].fingerprint = FpWin
        /\ users[r.referrer].points = 100

\* C4: once every registration has completed, each account's points is 100 times
\* the number of successful awards that named it as the referrer.
C4_EveryAwardCredited ==
    AllIdle => \A i \in Ids(users) : users[i].points = ReferralPoints * awards[i]

\* C5: without a fingerprint neither fraud check runs and the referrer is credited
\* 100, whatever fingerprints are stored.
C5_NoFingerprintCredits ==
    \A r \in Awards :
        r.fp = NoFp => /\ ~r.lookupQueried
                       /\ ~r.fraudDetected
                       /\ Credited(r)

C5_Witness ==
    \E r \in Awards :
        /\ r.fp = NoFp
        /\ Credited(r)
        /\ users[r.referrer].fingerprint = FpWin
        /\ \E i \in Ids(users) \ {r.referrer, r.newId} : users[i].fingerprint = FpWin

\* C6: when the fingerprint is same-device with the referrer's, the reported fraud
\* is the self-referral one and the lookup index was not queried, also when some
\* other account's fingerprint is same-device too.
C6_SelfReferralFirst ==
    \A r \in Awards :
        (r.fp # NoFp /\ isSameDevice(users[r.referrer].fingerprint, r.fp, FraudThreshold))
        => /\ r.awardError = SelfReferralMessage
           /\ r.fraudMessage = SelfReferralMessage
           /\ ~r.lookupQueried

C6_Witness ==
    \E r \in Awards :
        /\ r.awardError = SelfReferralMessage
        /\ ~r.lookupQueried
        /\ \E i \in Scanned(users) \ {r.referrer, r.newId} :
             isSameDevice(users[i].fingerprint, r.fp, FraudThreshold)

\* C7: the multi-account check fails with the multi-account fraud error exactly
\* when findMatchingFingerprint returned an account other than the new user; when
\* it returned the new user or nothing, the referrer is credited.
C7_MultiAccountIffOtherMatch ==
    \A r \in Awards :
        r.lookupQueried
        => /\ r.found \in Matches(users, r.fp, FraudThreshold)
           /\ (r.awardError = MultiAccountMessage) <=> (r.found # 0 /\ r.found # r.newId)
           /\ r.awardError = MultiAccountMessage
              => users[r.referrer].points = r.before[r.referrer]
           /\ (r.found = 0 \/ r.found = r.newId) => Credited(r)

C7_Witness ==
    \E r \in Awards :
        /\ r.lookupQueried
        /\ r.found = r.newId
        /\ Credited(r)
        /\ \E i \in Ids(users) \ {r.referrer, r.newId} :
             users[i].fingerprint = SchemaDefault

\* C8, as claimed: when the referral code of a registration resolves to no
\* account, the new account is persisted all the same.
C8_PersistedDespiteUnknownCode ==
    \A r \in Responses :
        (r.kind = "register" /\ r.error = "Invalid referral code")
        => findByEmail(users, r.email) # 0

\* C8, amended: a registration with a new email and a referral code that resolves
\* to no account is rejected with 400 'Invalid referral code' before any account
\* is created and before awardReferralPoints is called.
C8_UnknownCodeRejected ==
    \A r \in Responses :
        (r.kind = "register" /\ r.code # NoCode /\ findByReferralCode(users, r.code) = 0)
        => /\ r.status = 400
           /\ r.error = "Invalid referral code"
           /\ r.newId = 0
           /\ ~r.awardCalled
           /\ findByEmail(users, r.email) = 0

C8_Witness ==
    \E r \in Responses :
        /\ r.kind = "register"
        /\ r.error = "Invalid referral code"
        /\ Len(users) > 0
        /\ r.fp = FpWin

\* C9: with either fingerprint absent the evaluator answers false, at every
\* threshold.
C9_AbsentIsNotSameDevice ==
    (call.verdict # "none" /\ (call.fingerprint1 = NoFp \/ call.fingerprint2 = NoFp))
    => call.verdict = "false"

C9_Witness ==
    /\ call.verdict = "false"
    /\ call.fingerprint1 = NoFp
    /\ call.fingerprint2 = EvalFp(8, 1, 0)
    /\ call.threshold = 0

\* A field is present when it is defined and not the empty string; the number 0
\* is a present value.
Present(i, v) == v # Absent /\ (i <= 2 \/ v # 0)

Comparable(fp1, fp2) ==
    {i \in 1..8 : Present(i, FieldAt(fp1, i)) /\ Present(i, FieldAt(fp2, i))}

\* C10: two fingerprints with no field present in both are not the same device, at
\* every threshold, 0 included.
C10_NothingComparableIsNotSameDevice ==
    (/\ call.verdict # "none"
     /\ call.fingerprint1 # NoFp
     /\ call.fingerprint2 # NoFp
     /\ Comparable(call.fingerprint1, call.fingerprint2) = {})
    => call.verdict = "false"

\* C11: two fingerprints that hold the same value in each of the eight compared
\* fields, at least one of them a present value, are the same device at every
\* threshold up to 1.0, also when hardwareConcurrency or maxTouchPoints is 0.
C11_IdenticalIsSameDevice ==
    (/\ call.verdict # "none"
     /\ call.fingerprint1 # NoFp
     /\ call.fingerprint2 # NoFp
     /\ \A i \in 1..8 : FieldAt(call.fingerprint1, i) = FieldAt(call.fingerprint2, i)
     /\ Comparable(call.fingerprint1, call.fingerprint2) # {})
    => call.verdict = "true"

\* C12: the evaluator is symmetric: the verdict of a call is the verdict of the
\* call with the two fingerprints exchanged, at every threshold, absent
\* fingerprints and missing fields included.
C12_Symmetric ==
    call.verdict # "none"
    => (call.verdict = "true"
        <=> isSameDevice(call.fingerprint2, call.fingerprint1, call.threshold))

C12_Witness ==
    /\ call.verdict = "true"
    /\ call.fingerprint1 = EvalFp(3, 1, 0)
    /\ call.fingerprint2 = EvalFp(8, 0, 0)
    /\ call.threshold = 100

\* The matching fields among the comparable ones.
Matching(fp1, fp2) ==
    {i \in Comparable(fp1, fp2) : FieldAt(fp1, i) = FieldAt(fp2, i)}

\* ceil(threshold * c), the threshold being a percentage.
CeilOf(threshold, c) == (threshold * c + 99) \div 100

\* C13: with c >= 1 comparable fields, a pair matching on exactly
\* ceil(threshold * c) of them is the same device (equality at the boundary counts)
\* and a pair matching on one fewer is not.
C13_BoundaryCounts ==
    (/\ call.verdict # "none"
     /\ call.fingerprint1 # NoFp
     /\ call.fingerprint2 # NoFp
     /\ Comparable(call.fingerprint1, call.fingerprint2) # {})
    => LET c == Cardinality(Comparable(call.fingerprint1, call.fingerprint2))
           m == Cardinality(Matching(call.fingerprint1, call.fingerprint2))
       IN /\ m = CeilOf(call.threshold, c) => call.verdict = "true"
          /\ m = CeilOf(call.threshold, c) - 1 => call.verdict = "false"

\* C14: a field is a comparison exactly when both records hold a present value
\* for it (the number 0 included) and a match exactly when the two values are
\* equal: the evaluator's counters are the numbers of comparable and of matching
\* fields, 8 and 3 for the example pair.
C14_CountsPresentFields ==
    (/\ call.verdict # "none"
     /\ call.fingerprint1 # NoFp
     /\ call.fingerprint2 # NoFp)
    => /\ TotalChecks(call.fingerprint1, call.fingerprint2)
          = Cardinality(Comparable(call.fingerprint1, call.fingerprint2))
       /\ MatchCount(call.fingerprint1, call.fingerprint2)
          = Cardinality(Matching(call.fingerprint1, call.fingerprint2))
       /\ (call.fingerprint1 = ExampleWin /\ call.fingerprint2 = ExampleMac)
          => /\ TotalChecks(call.fingerprint1, call.fingerprint2) = 8
             /\ MatchCount(call.fingerprint1, call.fingerprint2) = 3

\* The responses of the requests that queried the lookup index.
Lookups == {r \in Responses : r.lookupQueried}

SameDeviceAt(r, k) ==
    isSameDevice(users[r.allUsers[k]].fingerprint, r.fp, FraudThreshold)

\* C15: findMatchingFingerprint returns the first account, in the order the store
\* hands the scanned accounts over, whose stored fingerprint is same-device with
\* the candidate; none when no scanned account is (an empty store included); and
\* never an account whose fingerprint is not.
C15_FirstMatchInOrder ==
    \A r \in Lookups :
        LET n == Len(r.allUsers)
        IN /\ {r.allUsers[k] : k \in 1..n} = Scanned(users)
           /\ r.found = 0 <=> \A k \in 1..n : ~SameDeviceAt(r, k)
           /\ r.found # 0
              => \E k \in 1..n : /\ r.allUsers[k] = r.found
                                 /\ SameDeviceAt(r, k)
                                 /\ \A j \in 1..(k - 1) : ~SameDeviceAt(r, j)

C15_Witness ==
    \E r \in Lookups :
        /\ Len(r.allUsers) >= 2
        /\ r.found = r.allUsers[1]
        /\ r.found > r.allUsers[2]
        /\ SameDeviceAt(r, 2)

\* C16: when no account of the store has a non-empty visitorId, the lookup
\* returns none, also when accounts with a missing or empty visitorId hold
\* fingerprints that are same-device with the candidate.
C16_NoVisitorIdNoMatch ==
    \A r \in Lookups :
        (\A i \in Ids(users) : ~Truthy(users[i].fingerprint.visitorId))
        => r.found = 0

\* C17: a referrer that never supplied a fingerprint (its record holds only the
\* schema defaults) never makes awardReferralPoints fail with the self-referral
\* fraud, whatever the new user's fingerprint.
C17_NoFingerprintNoSelfReferral ==
    \A r \in Awards :
        users[r.referrer].fingerprint = SchemaDefault
        => r.awardError # SelfReferralMessage

\* C18: every account's points is a non-negative integer in every state, no step
\* decreases any account's points, and the only step that changes points is the
\* credit inside awardReferralPoints.
C18_NonNegative == \A i \in Ids(users) : users[i].points \in Nat

C18_NoDecrease == \A i \in Ids(users) : users'[i].points >= users[i].points

C18_OnlyAward ==
    (\E i \in Ids(users) : users'[i].points # users[i].points)
    => \E s \in Slots : reqs[s].pc = "credit" /\ reqs'[s].pc = "done"

C18_PointsMonotone == []C18_NonNegative /\ [][C18_NoDecrease /\ C18_OnlyAward]_vars

\* C19: no two distinct accounts have the same myReferralCode.
C19_ReferralCodesUnique ==
    \A i, j \in Ids(users) :
        i # j => users[i].myReferralCode # users[j].myReferralCode

\* C20: once an account exists, no operation on it changes its myReferralCode.
C20_CodeKept ==
    \A i \in Ids(users) : users'[i].myReferralCode = users[i].myReferralCode

C20_ReferralCodeImmutable == [][C20_CodeKept]_vars

\* A request of one of the given kinds gets its response in this step.
Answered(s, kinds) ==
    /\ reqs[s].pc = "idle"
    /\ reqs'[s].pc = "done"
    /\ reqs'[s].resp.kind \in kinds

\* Everything stored but the fingerprint of account u is left as it was.
SameButFingerprint(u) ==
    /\ Len(users') = Len(users)
    /\ \A i \in Ids(users) :
         /\ users'[i].email = users[i].email
         /\ users'[i].points = users[i].points
         /\ users'[i].myReferralCode = users[i].myReferralCode
         /\ users'[i].enteredReferralCode = users[i].enteredReferralCode
         /\ i # u => users'[i].fingerprint = users[i].fingerprint

\* C21: a successful login with a fingerprint, and a successful update-fingerprint,
\* leave the account with exactly the supplied snapshot: each supplied field holds
\* the supplied value, each omitted field the schema default and not the previous
\* value; points and referral codes are unchanged.
C21_Replaced ==
    \A s \in Slots :
        (/\ Answered(s, {"login", "update"})
         /\ reqs'[s].resp.status = 200
         /\ reqs'[s].resp.fp # NoFp)
        => LET r == reqs'[s].resp
               stored == users'[r.userId].fingerprint
           IN /\ SameButFingerprint(r.userId)
              /\ \A f \in DOMAIN stored :
                   stored[f] = IF r.fp[f] # Absent THEN r.fp[f]
                               ELSE SchemaDefault[f]

C21_ReplacedWholesale == [][C21_Replaced]_vars

C21_Witness ==
    \E r \in Responses :
        /\ r.kind = "update"
        /\ r.status = 200
        /\ r.fp = FpPartial
        /\ users[r.userId].fingerprint.userAgent = SchemaDefault.userAgent
        /\ users[r.userId].fingerprint.hardwareConcurrency = 0
        /\ users[r.userId].points = 100

\* C22: the pre-registration fraud check changes nothing stored: the accounts and
\* every field of every account are the same after it as before, whatever it
\* reports.
C22_CheckStep ==
    \A s \in Slots : Answered(s, {"check"}) => users' = users

C22_CheckMutatesNothing == [][C22_CheckStep]_vars

C22_Witness ==
    \E r \in Responses :
        /\ r.kind = "check"
        /\ r.status = 200
        /\ r.sameDeviceReferral
        /\ r.multipleAccounts
        /\ users[r.referrer].points = 100

\* The answers of the pre-registration fraud check that carry a verdict.
Verdicts == {r \in Responses : r.kind = "check" /\ r.status = 200}

\* C23: the check reports fraudDetected = sameDeviceReferral or multipleAccounts;
\* multipleAccounts exactly when the lookup returns an account; sameDeviceReferral
\* exactly when a referral code is given, resolves to a referrer and the
\* referrer's fingerprint is same-device with the candidate; a fingerprint that is
\* same-device with no stored account, without a referral code, is not fraud.
C23_CheckVerdict ==
    \A r \in Verdicts :
        LET referrer == findByReferralCode(users, r.code)
        IN /\ r.fraudDetected <=> (r.sameDeviceReferral \/ r.multipleAccounts)
           /\ r.multipleAccounts
              <=> findMatchingFingerprint(users, r.fp, FraudThreshold, r.allUsers) # 0
           /\ r.sameDeviceReferral
              <=> /\ r.code # NoCode
                  /\ referrer # 0
                  /\ isSameDevice(users[referrer].fingerprint, r.fp, FraudThreshold)
           /\ (/\ r.code = NoCode
               /\ \A i \in Ids(users) :
                    ~isSameDevice(users[i].fingerprint, r.fp, FraudThreshold))
              => ~r.fraudDetected

C23_Witness ==
    \E r \in Verdicts :
        /\ r.fraudDetected
        /\ r.multipleAccounts
        /\ ~r.sameDeviceReferral
        /\ r.code # NoCode
        /\ findByReferralCode(users, r.code) # 0

\* Fraud as awardReferralPoints defines it, read off the store: the fingerprint is
\* same-device with the referrer's, or the lookup returned another account.
FraudFound(r) ==
    /\ r.fp # NoFp
    /\ \/ isSameDevice(users[r.referrer].fingerprint, r.fp, FraudThreshold)
       \/ r.lookupQueried /\ r.found # 0 /\ r.found # r.newId

\* C24: the referralInfo of a registration response agrees with the store:
\* referrerPointsAwarded 100 with fraudCheckPassed exactly when this registration
\* raised the referrer's stored points by 100; referrerPointsAwarded 0 with
\* fraudDetected exactly when fraud was found and the referrer's points are as
\* they were; pointsAwarded is always 0 and the new user's points stay 0.
C24_ReferralInfoAgrees ==
    /\ \A r \in Awards :
         /\ (r.referrerPointsAwarded = 100 /\ r.fraudCheckPassed)
            <=> users[r.referrer].points = r.before[r.referrer] + 100
         /\ (r.referrerPointsAwarded = 0 /\ r.fraudDetected)
            <=> (FraudFound(r) /\ users[r.referrer].points = r.before[r.referrer])
         /\ r.fraudCheckPassed = ~r.fraudDetected
         /\ users[r.newId].points = 0
    /\ \A r \in Responses :
         r.kind = "register"
         => /\ r.pointsAwarded = 0
            /\ r.referrerPointsAwarded \in {0, 100}
            /\ r.awardCalled \/ (~r.fraudDetected /\ r.referrerPointsAwarded = 0)

C24_Witness ==
    \E r \in Awards :
        /\ r.fraudDetected
        /\ r.referrerPointsAwarded = 0
        /\ r.before[r.referrer] = 100
        /\ users[r.referrer].points = 100

\* C25: awardReferralPoints resolves the referrer, then the new user, then runs
\* the fraud checks, and only then writes: no step of a call before the award
\* changes any stored field of any account, so a call that fails with an
\* invalid code, an unknown new user or a fraud error leaves the store as it
\* found it; the only step of a call that writes is the one that succeeds.
C25_Step ==
    \A s \in Slots :
        /\ (reqs[s].pc \in {"award", "scan"} /\ reqs'[s] # reqs[s]) => users' = users
        /\ (reqs'[s].pc = "done" /\ reqs[s].pc # "done" /\ reqs'[s].resp.awardError # "")
               => (users' = users /\ Points(users) = reqs'[s].resp.before)
        /\ (reqs[s].pc = "credit" /\ reqs'[s] # reqs[s])
               => (reqs'[s].resp.awardError = "" /\ reqs'[s].resp.referralResult)

C25_FailureChangesNothing == [][C25_Step]_vars

C25_Witness ==
    \E r \in Responses, i \in Ids(users) :
        /\ r.kind = "award"
        /\ r.awardError = "New user not found"
        /\ r.referrer # 0
        /\ users[i].points > 0
        /\ Points(users) = r.before

C25_WitnessFraud ==
    \E r \in Responses :
        /\ r.kind = "award"
        /\ r.awardError = MultiAccountMessage
        /\ Points(users) = r.before

C25_WitnessInvalidCode ==
    \E r \in Responses :
        /\ r.kind = "award"
        /\ r.awardError = "Invalid referral code"
        /\ Len(users) > 0
\* C26: a login that answers 401, for an unknown email or a wrong password,
\* changes no stored field of any account, whether or not it carries a
\* fingerprint; a login that does change the store answered 200, carried a
\* fingerprint, and changed only the fingerprint of the account it logged in.
C26_Step ==
    \A s \in Slots :
        Answered(s, {"login"}) =>
            LET r == reqs'[s].resp
            IN /\ r.status = 401 => users' = users
               /\ users' # users =>
                     /\ r.status = 200
                     /\ r.fp # NoFp
                     /\ r.userId = findByEmail(users, r.email)
                     /\ SameButFingerprint(r.userId)

C26_FailedLoginChangesNothing == [][C26_Step]_vars

C26_Witness ==
    \E r \in Responses :
        /\ r.kind = "login"
        /\ r.status = 401
        /\ r.fp # NoFp
        /\ findByEmail(users, r.email) # 0
        /\ users[findByEmail(users, r.email)].fingerprint # StoredFingerprint(r.fp)
        /\ users[findByEmail(users, r.email)].points > 0

C26_WitnessUnknownEmail ==
    \E r \in Responses :
        /\ r.kind = "login"
        /\ r.status = 401
        /\ r.fp # NoFp
        /\ findByEmail(users, r.email) = 0
        /\ Len(users) > 0
\* A fraud check answered in slot 1 and, started after it on the same store, a
\* registration answered in slot 2 that created its account with the
\* fingerprint and the code of the check, the code being that of an account.
CheckedThenRegistered ==
    /\ reqs[1].pc = "done"
    /\ reqs[2].pc = "done"
    /\ reqs[1].resp.kind = "check"
    /\ reqs[1].resp.status = 200
    /\ reqs[1].resp.referrer # 0
    /\ reqs[2].resp.kind = "register"
    /\ reqs[2].resp.newId # 0
    /\ reqs[2].resp.fp = reqs[1].resp.fp
    /\ reqs[2].resp.code = reqs[1].resp.code

RegistrationCredited ==
    /\ reqs[2].resp.referrerPointsAwarded = ReferralPoints
    /\ users[reqs[2].resp.referrer].points =
           reqs[2].resp.before[reqs[2].resp.referrer] + ReferralPoints

RegistrationNotCredited ==
    /\ reqs[2].resp.referrerPointsAwarded = 0
    /\ Points(users) = reqs[2].resp.before

\* C27: the fraud check and the registration agree: when the check reported
\* fraudDetected false the registration credits the referrer 100, and when it
\* reported fraudDetected true the registration credits no points.
C27_CheckAgreesWithRegistration ==
    CheckedThenRegistered =>
        /\ ~reqs[1].resp.fraudDetected => RegistrationCredited
        /\ reqs[1].resp.fraudDetected => RegistrationNotCredited

\* The half of C27 that holds: a passed check is followed by a credit.
C27_PassedCheckCredits ==
    (CheckedThenRegistered /\ ~reqs[1].resp.fraudDetected) => RegistrationCredited

\* The other half holds whenever the registration's scan did not come back
\* with the new account itself.
C27_FlaggedCheckNoCreditUnlessSelfFound ==
    (CheckedThenRegistered /\ reqs[1].resp.fraudDetected
        /\ reqs[2].resp.found # reqs[2].resp.newId)
      => RegistrationNotCredited

C27_WitnessPassed ==
    CheckedThenRegistered /\ ~reqs[1].resp.fraudDetected /\ RegistrationCredited

C27_WitnessFlagged ==
    CheckedThenRegistered /\ reqs[1].resp.fraudDetected /\ RegistrationNotCredited
\* The accounts other than the new one that hold a visitorId and whose stored
\* fingerprint is same-device at 0.7 with the new user's.
OtherHolders(r) ==
    {i \in Ids(users) \ {r.newId} :
        /\ Truthy(users[i].fingerprint.visitorId)
        /\ isSameDevice(users[i].fingerprint, r.fp, FraudThreshold)}

\* C28: whenever an account other than the new user, holding a visitorId, has a
\* fingerprint that is same-device at 0.7 with the new user's, the award does
\* not credit the referrer, whatever the order in which the store hands the
\* accounts over, the new user's own record first included.
C28_OtherHolderBlocksCredit ==
    \A r \in Awards :
        (r.fp # NoFp /\ OtherHolders(r) # {})
        => /\ ~r.referralResult
           /\ r.referrerPointsAwarded = 0
           /\ users[r.referrer].points = r.before[r.referrer]

\* The same, for the orders in which the new user's record does not come before
\* every other same-device account.
C28_BlocksCreditUnlessSelfFirst ==
    \A r \in Awards :
        (r.fp # NoFp /\ OtherHolders(r) # {} /\ (r.lookupQueried => r.found # r.newId))
        => /\ ~r.referralResult
           /\ r.referrerPointsAwarded = 0
           /\ users[r.referrer].points = r.before[r.referrer]

C28_WitnessBlocked ==
    \E r \in Awards :
        /\ r.fp # NoFp
        /\ OtherHolders(r) # {}
        /\ r.lookupQueried
        /\ r.awardError = MultiAccountMessage

C28_WitnessSelfFirst ==
    \E r \in Awards :
        /\ r.fp # NoFp
        /\ OtherHolders(r) # {}
        /\ r.lookupQueried
        /\ r.found = r.newId
        /\ r.allUsers[1] = r.newId
        /\ Credited(r)
\* The account in slot 1's answer had its fingerprint replaced by a snapshot that
\* is not same-device with the fingerprint of the registration answered, after
\* it, in slot 2, whose code was that of an account.
ReplacedThenRegistered ==
    /\ reqs[1].pc = "done"
    /\ reqs[2].pc = "done"
    /\ reqs[1].resp.kind \in {"login", "update"}
    /\ reqs[1].resp.status = 200
    /\ reqs[1].resp.fp # NoFp
    /\ reqs[2].resp.kind = "register"
    /\ reqs[2].resp.awardCalled
    /\ reqs[2].resp.referrer # 0
    /\ ~isSameDevice(StoredFingerprint(reqs[1].resp.fp), reqs[2].resp.fp,
                     FraudThreshold)

\* Some account, the new one apart, holds now a fingerprint that is same-device
\* with the registration's: the referrer, or one the scan can meet.
HeldNow(r) ==
    \E i \in Ids(users) \ {r.newId} :
        /\ i = r.referrer \/ i \in Scanned(users)
        /\ isSameDevice(users[i].fingerprint, r.fp, FraudThreshold)

C29_WitnessOtherCode ==
    /\ ReplacedThenRegistered
    /\ reqs[2].resp.referrer # reqs[1].resp.userId
    /\ reqs[2].resp.lookupQueried
    /\ Credited(reqs[2].resp)

C29_WitnessStillFlagged ==
    /\ ReplacedThenRegistered
    /\ HeldNow(reqs[2].resp)
    /\ reqs[2].resp.fraudDetected
\* The store of two accounts: one registered from the second device of the
\* tests, one from the first fingerprint of the call, each under a visitorId.
CallStore ==
    LET held(fp, vid) == IF fp = NoFp THEN fp ELSE [fp EXCEPT !.visitorId = vid]
    IN <<NewUser([email |-> 1, code |-> NoCode, fp |-> held(ExampleMac, 1)], 1),
         NewUser([email |-> 2, code |-> NoCode, fp |-> held(call.fingerprint1, 2)], 2)>>

LowerThresholds(threshold) == {t \in Thresholds : t <= threshold}

\* C30: isSameDevice is monotone in the threshold: a pair that is same-device at a
\* threshold is same-device at every lower one (so a pair that is not is not at
\* any higher one); and a lookup that returns an account at a threshold returns
\* an account, in whatever order the store is scanned, at every lower one.
C30_MonotoneInThreshold ==
    call.verdict # "none" =>
        /\ call.verdict = "true"
           => \A t \in LowerThresholds(call.threshold) :
                 isSameDevice(call.fingerprint1, call.fingerprint2, t)
        /\ call.verdict = "false"
           => \A t \in Thresholds :
                 t >= call.threshold
                 => ~isSameDevice(call.fingerprint1, call.fingerprint2, t)
        /\ \A order \in ScanOrders(CallStore) :
              findMatchingFingerprint(CallStore, call.fingerprint2,
                                      call.threshold, order) # 0
              => \A t \in LowerThresholds(call.threshold),
                    other \in ScanOrders(CallStore) :
                    findMatchingFingerprint(CallStore, call.fingerprint2, t, other) # 0

C30_Witness ==
    /\ call.verdict = "true"
    /\ call.fingerprint1 = EvalFp(4, 0, 0)
    /\ call.fingerprint2 = EvalFp(4, 0, 1)
    /\ call.threshold = 75
    /\ ~isSameDevice(call.fingerprint1, call.fingerprint2, 100)
    /\ findMatchingFingerprint(CallStore, call.fingerprint2, 75, <<1, 2>>) = 2
    /\ findMatchingFingerprint(CallStore, call.fingerprint2, 0, <<1, 2>>) = 1

\* The lookups the routes make, all at 0.7: one that returned an account returns
\* an account at every lower threshold, on the same store, in every order.
C30_LookupMonotone ==
    \A r \in Lookups :
        r.found # 0
        => \A t \in LowerThresholds(FraudThreshold), order \in ScanOrders(users) :
              findMatchingFingerprint(users, r.fp, t, order) # 0
====
